---- MODULE Spec2Model ----
(***************************************************************************)
(* qtrace (src/src/main.rs): one sequential run of main().  The run asks   *)
(* Loki for a log entry, asks graph-node for the trace of that query,      *)
(* parses output["trace"] into a Trace tree (Trace::parse / parse_query),  *)
(* and prints it with print_brief_trace, which also computes query_time.   *)
(***************************************************************************)
EXTENDS Integers, Sequences, FiniteSets, TLC

VARIABLES
    pc,         \* the statement of main() the run is at
    calls,      \* the steps of main() made so far, each with its outcome
    log_entry,  \* what loki.query returned
    output,     \* what graph_node.query returned
    trace,      \* what Trace::parse returned
    stack,      \* the active calls of print_brief_trace, innermost last
    out,        \* the lines printed to stdout
    result      \* "running", or how main() ended: "ok", "err", "panic"

vars == <<pc, calls, log_entry, output, trace, stack, out, result>>

(***************************************************************************)
(* Bounds of the explored inputs.                                          *)
(***************************************************************************)
\* elapsed_ms of a nested node is MsUnit * k, k in 0..MaxMs; of the root,
\* k in 0..MaxMs+1
MaxMs == 1
MsUnit == 600
\* the branching traces have at most MaxNodes nested (Query) nodes
MaxNodes == 3
\* the single-path traces nest up to ChainDepth levels below the root
ChainDepth == 26

(***************************************************************************)
(* serde_json::Value.  An object is the sequence of its (key, value)       *)
(* entries in the order the map iterates them; keys are distinct.          *)
(* A number carries n; n < 0 stands for every number as_u64() rejects.     *)
(***************************************************************************)
Null == [t |-> "null"]
Str(s) == [t |-> "str", s |-> s]
Num(n) == [t |-> "num", n |-> n]
Arr == [t |-> "arr"]
Bool == [t |-> "bool"]
Obj(entries) == [t |-> "obj", e |-> entries]

is_object(v) == v.t = "obj"

\* Value's Index<&str>: the entry's value, Null when the key is absent or the
\* value is no object
Index(v, key) ==
    IF is_object(v) /\ \E i \in 1..Len(v.e) : v.e[i].k = key
    THEN v.e[CHOOSE i \in 1..Len(v.e) : v.e[i].k = key].v
    ELSE Null

\* Value::as_u64: Some only for a number that is a non-negative integer
is_u64(v) == v.t = "num" /\ v.n >= 0

\* Value's Display (to_string): the compact JSON text, which the value
\* determines; kept as the value it is the text of
to_string(v) == [text |-> v]

Ok(v) == [ok |-> TRUE, val |-> v]
Err(e) == [ok |-> FALSE, err |-> e]

(***************************************************************************)
(* std::time::Duration: whole seconds and the nanoseconds below a second.  *)
(***************************************************************************)
NanosPerSec == 1000000000
NanosPerMilli == 1000000
MillisPerSec == 1000

from_millis(ms) ==
    [secs |-> ms \div MillisPerSec, nanos |-> (ms % MillisPerSec) * NanosPerMilli]

as_millis(d) == d.secs * MillisPerSec + d.nanos \div NanosPerMilli

DurZero == [secs |-> 0, nanos |-> 0]

\* Duration + Duration (the carry of the nanoseconds into the seconds)
DurAdd(a, b) ==
    LET n == a.nanos + b.nanos
    IN  IF n >= NanosPerSec
        THEN [secs |-> a.secs + b.secs + 1, nanos |-> n - NanosPerSec]
        ELSE [secs |-> a.secs + b.secs, nanos |-> n]

\* a < b on Durations
DurLess(a, b) == a.secs < b.secs \/ (a.secs = b.secs /\ a.nanos < b.nanos)

\* a subtraction that takes the nanoseconds from the next second without
\* borrowing that second
DurSubNoBorrow(a, b) ==
    IF a.nanos >= b.nanos
    THEN [secs |-> a.secs - b.secs, nanos |-> a.nanos - b.nanos]
    ELSE [secs |-> a.secs - b.secs, nanos |-> a.nanos + NanosPerSec - b.nanos]

\* Duration::checked_sub for a >= b (the borrow from the seconds)
DurSub(a, b) ==
    IF a.nanos >= b.nanos
    THEN [secs |-> a.secs - b.secs, nanos |-> a.nanos - b.nanos]
    ELSE [secs |-> a.secs - b.secs - 1, nanos |-> a.nanos + NanosPerSec - b.nanos]

(***************************************************************************)
(* Trace::parse and Trace::parse_query.  The recursion is kept as the call *)
(* stack: a frame holds a call's arguments and locals, the innermost call  *)
(* is the last frame.                                                      *)
(***************************************************************************)
number_as_millis(entry, key) ==
    LET v == Index(entry, key)
    IN  IF is_u64(v)
        THEN Ok(from_millis(v.n))
        ELSE Err("Invalid trace: " \o key \o " is not a duration")

\* as_object(): the entries the loop iterates; None for any other value
entries_of(v) == IF is_object(v) THEN v.e ELSE <<>>

\* a test that never takes an entry under a metadata key for a child
is_child_unless_metadata(key, value) ==
    is_object(value)
    /\ key \notin {"query", "variables", "query_id", "block", "elapsed_ms",
                   "conn_wait_ms", "permit_wait_ms", "entity_count"}

\* the test of the loop body: if value.is_object() { children.push(..) }
is_child(key, value) == is_object(value)

\* the first entry at or after i that the loop parses as a child, 0 if none
next_child(entries, i) ==
    LET js == {j \in i..Len(entries) : is_child(entries[j].k, entries[j].v)}
    IN  IF js = {} THEN 0 ELSE CHOOSE j \in js : \A k \in js : j <= k

\* parse_query after its loop: the fields, each with ?, then Ok((name, Query))
finish_query(name, query, children) ==
    LET elapsed == number_as_millis(query, "elapsed_ms")
        conn_wait == number_as_millis(query, "conn_wait_ms")
        permit_wait == number_as_millis(query, "permit_wait_ms")
        entity_count == Index(query, "entity_count")
    IN  IF ~is_object(query)
        THEN Err("Invalid trace: " \o name \o " is not an object")
        ELSE IF ~elapsed.ok THEN elapsed
        ELSE IF ~conn_wait.ok THEN conn_wait
        ELSE IF ~permit_wait.ok THEN permit_wait
        ELSE IF ~is_u64(entity_count)
        THEN Err("Invalid trace: entity count is not a number")
        ELSE Ok([kind |-> "Query",
                 query |-> to_string(query),
                 elapsed |-> elapsed.val,
                 conn_wait |-> conn_wait.val,
                 permit_wait |-> permit_wait.val,
                 entity_count |-> entity_count.n,
                 children |-> children])

\* parse after its loop: Ok(Self::Root { .. }), the fields in this order
finish_root(root, children) ==
    LET block == Index(root, "block")
        elapsed == number_as_millis(root, "elapsed_ms")
        conn_wait == number_as_millis(root, "conn_wait_ms")
        permit_wait == number_as_millis(root, "permit_wait_ms")
    IN  IF ~is_object(root)
        THEN Err("Invalid trace: root is not an object")
        ELSE IF ~is_u64(block)
        THEN Err("Invalid trace: block is not a number")
        ELSE IF ~elapsed.ok THEN elapsed
        ELSE IF ~conn_wait.ok THEN conn_wait
        ELSE IF ~permit_wait.ok THEN permit_wait
        ELSE Ok([kind |-> "Root",
                 query |-> to_string(Index(root, "query")),
                 variables |-> to_string(Index(root, "variables")),
                 query_id |-> to_string(Index(root, "query_id")),
                 block |-> block.n,
                 elapsed |-> elapsed.val,
                 conn_wait |-> conn_wait.val,
                 permit_wait |-> permit_wait.val,
                 children |-> children])

\* Trace::query_id
query_id(t) == IF t.kind = "Root" THEN t.query_id ELSE [lit |-> "none"]

\* a call of parse (fn = "parse") or parse_query: value is the JSON node, i
\* the entry the loop is at, children what it has pushed
ParseFrame(fn, name, value) ==
    [fn |-> fn, name |-> name, value |-> value, i |-> 1, children |-> <<>>]

Top == stack[Len(stack)]
Rest == SubSeq(stack, 1, Len(stack) - 1)
SetTop(f) == [stack EXCEPT ![Len(stack)] = f]
InParse == stack # <<>> /\ Top.fn \in {"parse", "parse_query"}

Logged(step, ev) == Append(calls, [step |-> step, ev |-> ev])

\* what a finished step of main() leaves: on Err the ? returns from main
Returned(step, ok) == Logged(step, IF ok THEN "ok" ELSE "err")

(***************************************************************************)
(* query_time, the local function of print_brief_trace, and                *)
(* print_brief_trace.  A printed node line is kept as the arguments of its *)
(* println! and the lengths the format string gives its padded fields.     *)
(***************************************************************************)
RootNameWidth == 48
QueryNameWidth == 50
IndentStep == 2

\* a call of query_time(trace): acc is the running sum() over the children
QtFrame(t) == [fn |-> "query_time", trace |-> t, i |-> 1, acc |-> DurZero]

\* a query_time whose Root arm counts the root's own elapsed as well
query_time_with_root(t, sum) == DurAdd(t.elapsed, sum)

\* what query_time returns once the children are summed
query_time_value(t, sum) ==
    IF t.kind = "Root" THEN sum ELSE DurAdd(t.elapsed, sum)

\* {s:width$} for a string of len characters: width is a minimum, a longer
\* string is printed whole.  A width below 0 is the bit pattern of a wrapped
\* usize (2^64 + width), longer than any string.
fmt_width(len, width) ==
    IF width < 0 THEN width
    ELSE IF width > len THEN width ELSE len

\* a - b on usize: with overflow checks the subtraction panics when b > a,
\* without them it wraps (kept as the negative a - b, the same bit pattern)
usize_sub(a, b) ==
    IF a >= b
    THEN {[panic |-> FALSE, v |-> a - b]}
    ELSE {[panic |-> TRUE, v |-> 0], [panic |-> FALSE, v |-> a - b]}

\* "{space:indent$}{name:rest$} {elapsed:7}ms" with space = " "
RootLine(name, elapsed, indent, rest) ==
    [kind |-> "root", indent |-> indent,
     lead |-> fmt_width(Len(" "), indent),
     name |-> name, namew |-> fmt_width(Len(name), rest),
     ms |-> as_millis(elapsed)]

\* "{space:indent$}{name:rest$} {elapsed:7}ms [{count:7} entities]"
QueryLine(name, elapsed, entity_count, indent, rest) ==
    [kind |-> "query", indent |-> indent,
     lead |-> fmt_width(Len(" "), indent),
     name |-> name, namew |-> fmt_width(Len(name), rest),
     ms |-> as_millis(elapsed), count |-> entity_count]

\* the three println! after the loop of the Root arm; the first starts with \n
SummaryLines(qt, pt, elapsed) ==
    << [kind |-> "blank"],
       [kind |-> "query:", ms |-> as_millis(qt)],
       [kind |-> "other:", ms |-> as_millis(pt)],
       [kind |-> "total:", ms |-> as_millis(elapsed)] >>

\* a recursion that hands the indent on unchanged
child_indent_unchanged(indent) == indent

\* the indent a child is printed at
child_indent(indent) == indent + IndentStep

\* a call of print_brief_trace(name, trace, indent) that has not printed yet
PrintFrame(name, t, indent) ==
    [fn |-> "print_brief_trace", name |-> name, trace |-> t, indent |-> indent,
     at |-> "enter", i |-> 1, qt |-> DurZero, pt |-> DurZero]

InPrint == stack # <<>> /\ Top.fn = "print_brief_trace"
InQueryTime == stack # <<>> /\ Top.fn = "query_time"

(***************************************************************************)
(* The explored inputs: the JSON documents graph-node may answer with.     *)
(* Objects list their entries in key order (serde_json's default map).     *)
(***************************************************************************)
KeyOrder ==
    << "a", "b", "block", "conn_wait_ms", "elapsed_ms", "entity_count", "foo",
       "permit_wait_ms", "query", "query_id", "variables" >>

Entry(k, v) == [k |-> k, v |-> v]

HasKey(obj, key) == \E i \in 1..Len(obj.e) : obj.e[i].k = key

RECURSIVE EntriesWith(_, _, _, _)
\* the entries of obj with key set to v, from position i of KeyOrder on
EntriesWith(obj, key, v, i) ==
    IF i > Len(KeyOrder) THEN <<>>
    ELSE LET k == KeyOrder[i]
             here == IF k = key THEN <<Entry(k, v)>>
                     ELSE IF HasKey(obj, k) THEN <<Entry(k, Index(obj, k))>>
                     ELSE <<>>
         IN  here \o EntriesWith(obj, key, v, i + 1)

WithKey(obj, key, v) == Obj(EntriesWith(obj, key, v, 1))
WithoutKey(obj, key) == Obj(SelectSeq(obj.e, LAMBDA en : en.k # key))

QueryObj(kids, ms) ==
    Obj(kids \o << Entry("conn_wait_ms", Num(0)), Entry("elapsed_ms", Num(ms)),
                   Entry("entity_count", Num(Len(kids) + 1)),
                   Entry("permit_wait_ms", Num(0)) >>)

RootObj(kids, ms) ==
    Obj(kids \o << Entry("block", Num(7)), Entry("conn_wait_ms", Num(0)),
                   Entry("elapsed_ms", Num(ms)), Entry("permit_wait_ms", Num(0)),
                   Entry("query", Str("{ things { id } }")),
                   Entry("query_id", Str("f2a1")), Entry("variables", Str("{}")) >>)

NodeMs == {MsUnit * k : k \in 0..MaxMs}
RootMs == {MsUnit * k : k \in 0..(MaxMs + 1)}

RECURSIVE QueryTrees(_, _)
RECURSIVE Kids(_, _)
\* the child entries, one keyed "a" or two keyed "a" and "b", that hold n
\* nodes in all
Kids(n, ms) ==
    IF n = 0 THEN {<<>>}
    ELSE {<<Entry("a", t)>> : t \in QueryTrees(n, ms)}
         \cup UNION {{<<Entry("a", ta), Entry("b", tb)>> :
                        ta \in QueryTrees(i, ms), tb \in QueryTrees(n - i, ms)} :
                     i \in 1..(n - 1)}
\* the nested nodes with exactly n nodes, elapsed_ms drawn from ms
QueryTrees(n, ms) == {QueryObj(kids, e) : kids \in Kids(n - 1, ms), e \in ms}

BranchingRoots ==
    UNION {{RootObj(kids, e) : kids \in Kids(n, NodeMs), e \in RootMs} : n \in 0..MaxNodes}

RECURSIVE ChainQuery(_)
\* d nodes nested one in the other under the key "a"
ChainQuery(d) ==
    IF d = 1 THEN QueryObj(<<>>, MsUnit)
    ELSE [t |-> "obj",
          e |-> << [k |-> "a", v |-> ChainQuery(d - 1)],
                   Entry("conn_wait_ms", Num(0)), Entry("elapsed_ms", Num(0)),
                   Entry("entity_count", Num(2)), Entry("permit_wait_ms", Num(0)) >>]

ChainRoots == {RootObj(<<Entry("a", ChainQuery(d))>>, e) : d \in 1..ChainDepth, e \in RootMs}

\* the well-formed shapes the malformed documents are derived from
ShapeRoots ==
    UNION {{RootObj(kids, MsUnit * MaxNodes) : kids \in Kids(n, {MsUnit})} : n \in 0..MaxNodes}

RECURSIVE NodePaths(_)
\* the paths (key sequences) from v to every object nested in it, v included
NodePaths(v) ==
    {<<>>} \cup UNION {{<<v.e[i].k>> \o p : p \in NodePaths(v.e[i].v)} :
                       i \in {j \in 1..Len(v.e) : is_object(v.e[j].v)}}

RECURSIVE ValueAt(_, _)
ValueAt(v, path) == IF path = <<>> THEN v ELSE ValueAt(Index(v, Head(path)), Tail(path))

Leaf == QueryObj(<<>>, 0)

Defects ==
    {[op |-> "remove", key |-> k, v |-> Null] :
        k \in {"elapsed_ms", "conn_wait_ms", "permit_wait_ms", "entity_count",
               "block", "query", "variables", "query_id"}}
    \cup {[op |-> "set", key |-> "elapsed_ms", v |-> v] : v \in {Str("12"), Num(-1), Null, Leaf}}
    \cup {[op |-> "set", key |-> "foo", v |-> v] : v \in {Str("x"), Num(3), Arr, Null, Bool, Leaf}}
    \cup {[op |-> "set", key |-> "query", v |-> Leaf]}

ApplyDefect(obj, d) ==
    IF d.op = "remove" THEN WithoutKey(obj, d.key) ELSE WithKey(obj, d.key, d.v)

RECURSIVE ApplyAt(_, _, _)
ApplyAt(obj, path, d) ==
    IF path = <<>> THEN ApplyDefect(obj, d)
    ELSE Obj([i \in 1..Len(obj.e) |->
                IF obj.e[i].k = Head(path)
                THEN Entry(obj.e[i].k, ApplyAt(obj.e[i].v, Tail(path), d))
                ELSE obj.e[i]])

MalformedRoots ==
    {ApplyAt(r, p, d) : <<r, p>> \in UNION {{<<r, p>> : p \in NodePaths(r)} : r \in ShapeRoots},
                        d \in Defects}

TraceValues == BranchingRoots \cup ChainRoots \cup MalformedRoots \cup {Null, Num(1), Arr}

\* graph-node's response: {"data": ..., "trace": ...}, or one without a trace
Responses ==
    {Obj(<<Entry("data", Null), Entry("trace", t)>>) : t \in TraceValues}
    \cup {Obj(<<Entry("data", Null)>>)}

LogEntries == {[query |-> "{ things { id } }", variables |-> Obj(<<>>)]}

(***************************************************************************)
(* main().  Every step is a blocking call; a step that returns Err ends    *)
(* the run through the ? operator.                                         *)
(***************************************************************************)
NoValue == [t |-> "none"]

Init ==
    /\ pc = "Config::load"
    /\ calls = <<>>
    /\ log_entry = NoValue
    /\ output = NoValue
    /\ trace = NoValue
    /\ stack = <<>>
    /\ out = <<>>
    /\ result = "running"

\* a main that does not return on Err
after_step_ignoring_err(ok) == "running"

\* step()?: main goes on after Ok and returns the Err otherwise
after_step(ok) == IF ok THEN "running" ELSE "err"

\* a step of main() that only succeeds or fails
Step(step, next) ==
    /\ pc = step /\ result = "running"
    /\ \E ok \in BOOLEAN :
         /\ calls' = calls \o <<[step |-> step, ev |-> "call"],
                                [step |-> step, ev |-> IF ok THEN "ok" ELSE "err"]>>
         /\ pc' = IF ok THEN next ELSE pc
         /\ result' = after_step(ok)
    /\ UNCHANGED <<log_entry, output, trace, stack, out>>

ConfigLoad == Step("Config::load", "writeln Loki")

\* writeln!(out, "Querying Loki for query log entry")?
WritelnLoki == Step("writeln Loki", "loki.query")

LokiQuery ==
    /\ pc = "loki.query" /\ result = "running"
    /\ \E r \in {Ok(e) : e \in LogEntries} \cup {Err("Failed to send Loki query")} :
         /\ calls' = calls \o <<[step |-> "loki.query", ev |-> "call"],
                                [step |-> "loki.query", ev |-> IF r.ok THEN "ok" ELSE "err"]>>
         /\ log_entry' = IF r.ok THEN r.val ELSE log_entry
         /\ pc' = IF r.ok THEN "save_query" ELSE pc
         /\ result' = after_step(r.ok)
    /\ UNCHANGED <<output, trace, stack, out>>

SaveQuery == Step("save_query", "writeln graph-node")

\* writeln!(out, "Querying graph-node for query trace")?
WritelnGraph == Step("writeln graph-node", "graph_node.query")

GraphQuery ==
    /\ pc = "graph_node.query" /\ result = "running"
    /\ \E r \in {Ok(v) : v \in Responses} \cup {Err("Failed to send graph-node query")} :
         /\ calls' = calls \o <<[step |-> "graph_node.query", ev |-> "call"],
                                [step |-> "graph_node.query", ev |-> IF r.ok THEN "ok" ELSE "err"]>>
         /\ output' = IF r.ok THEN r.val ELSE output
         /\ pc' = IF r.ok THEN "save_output" ELSE pc
         /\ result' = after_step(r.ok)
    /\ UNCHANGED <<log_entry, trace, stack, out>>

SaveOutput == Step("save_output", "save_trace")

SaveTrace == Step("save_trace", "Trace::parse")

\* Trace::parse(&output["trace"])
ParseCall ==
    /\ pc = "Trace::parse" /\ result = "running" /\ stack = <<>>
    /\ stack' = <<ParseFrame("parse", "root", Index(output, "trace"))>>
    /\ calls' = Logged("Trace::parse", "call")
    /\ UNCHANGED <<pc, log_entry, output, trace, out, result>>

\* the loop reaches an entry whose value is an object: parse_query(key, value)
ParseChild ==
    /\ pc = "Trace::parse" /\ result = "running" /\ InParse
    /\ LET es == entries_of(Top.value)
           j == next_child(es, Top.i)
       IN  /\ j # 0
           /\ stack' = Append(SetTop([Top EXCEPT !.i = j]),
                              ParseFrame("parse_query", es[j].k, es[j].v))
    /\ UNCHANGED <<pc, calls, log_entry, output, trace, out, result>>

\* what the innermost call of frames returns once its loop is over
parse_result(frames) ==
    LET f == frames[Len(frames)]
    IN  IF f.fn = "parse"
        THEN finish_root(f.value, f.children)
        ELSE finish_query(f.name, f.value, f.children)

\* a best-effort return: a child that failed is left out and the loop of its
\* parent goes on
parse_return_skipping(frames, r) ==
    LET n == Len(frames)
    IN  IF n = 1 THEN <<>>
        ELSE IF ~r.ok
        THEN Append(SubSeq(frames, 1, n - 2), [frames[n - 1] EXCEPT !.i = @ + 1])
        ELSE Append(SubSeq(frames, 1, n - 2),
                    [frames[n - 1] EXCEPT
                        !.children = Append(@, <<frames[n].name, r.val>>),
                        !.i = @ + 1])

\* the call stack after the innermost call returned r: an Err returns from
\* every caller (children.push(Self::parse_query(key, value)?)), an Ok child is
\* pushed on its parent's children and the parent's loop goes on
parse_return(frames, r) ==
    LET n == Len(frames)
    IN  IF ~r.ok \/ n = 1 THEN <<>>
        ELSE Append(SubSeq(frames, 1, n - 2),
                    [frames[n - 1] EXCEPT
                        !.children = Append(@, <<frames[n].name, r.val>>),
                        !.i = @ + 1])

\* the loop of the innermost call is over
ParseReturn ==
    /\ pc = "Trace::parse" /\ result = "running" /\ InParse
    /\ next_child(entries_of(Top.value), Top.i) = 0
    /\ LET r == parse_result(stack)
           s == parse_return(stack, r)
       IN  /\ stack' = s
           /\ IF s # <<>>
              THEN UNCHANGED <<pc, calls, trace, result>>
              ELSE /\ calls' = Returned("Trace::parse", r.ok)
                   /\ trace' = IF r.ok THEN r.val ELSE trace
                   /\ pc' = IF r.ok THEN "println" ELSE pc
                   /\ result' = after_step(r.ok)
    /\ UNCHANGED <<log_entry, output, out>>

\* println!("Trace for qid {}\n deployment {}\n", trace.query_id(), ..)
Header ==
    /\ pc = "println" /\ result = "running"
    /\ out' = Append(out, [kind |-> "header", qid |-> query_id(trace)])
    /\ pc' = "print_brief_trace"
    /\ UNCHANGED <<calls, log_entry, output, trace, stack, result>>

\* print_brief_trace("root", &trace, 0)
RenderCall ==
    /\ pc = "print_brief_trace" /\ result = "running" /\ stack = <<>>
    /\ stack' = <<PrintFrame("root", trace, 0)>>
    /\ calls' = Logged("print_brief_trace", "call")
    /\ UNCHANGED <<pc, log_entry, output, trace, out, result>>

Panic ==
    /\ result' = "panic"
    /\ UNCHANGED <<pc, calls, log_entry, output, trace, stack, out>>

\* the Root arm: let qt = query_time(trace)
QtCall ==
    /\ result = "running" /\ InPrint
    /\ Top.at = "enter" /\ Top.trace.kind = "Root"
    /\ stack' = Append(SetTop([Top EXCEPT !.at = "qt"]), QtFrame(Top.trace))
    /\ UNCHANGED <<pc, calls, log_entry, output, trace, out, result>>

\* query_time: the next child of children.iter().map(..)
QtChild ==
    /\ result = "running" /\ InQueryTime
    /\ Top.i <= Len(Top.trace.children)
    /\ stack' = Append(stack, QtFrame(Top.trace.children[Top.i][2]))
    /\ UNCHANGED <<pc, calls, log_entry, output, trace, out, result>>

\* query_time returns: to the sum() of its caller, or to the Root arm
QtReturn ==
    /\ result = "running" /\ InQueryTime
    /\ Top.i > Len(Top.trace.children)
    /\ LET v == query_time_value(Top.trace, Top.acc)
           n == Len(stack)
           caller == stack[n - 1]
       IN  stack' = Append(SubSeq(stack, 1, n - 2),
                           IF caller.fn = "query_time"
                           THEN [caller EXCEPT !.acc = DurAdd(@, v), !.i = @ + 1]
                           ELSE [caller EXCEPT !.qt = v, !.at = "sub"])
    /\ UNCHANGED <<pc, calls, log_entry, output, trace, out, result>>

\* the Root arm up to its loop: pt = *elapsed - qt (Duration's Sub panics
\* when qt > elapsed), then the root line
PrintRoot ==
    /\ result = "running" /\ InPrint
    /\ Top.at = "sub"
    /\ LET f == Top
       IN  IF DurLess(f.trace.elapsed, f.qt)
           THEN Panic
           ELSE \E w \in usize_sub(RootNameWidth, f.indent) :
                  IF w.panic
                  THEN Panic
                  ELSE /\ out' = Append(out, RootLine(f.name, f.trace.elapsed, f.indent, w.v))
                       /\ stack' = SetTop([f EXCEPT !.at = "loop",
                                             !.pt = DurSub(f.trace.elapsed, f.qt)])
                       /\ UNCHANGED <<pc, calls, log_entry, output, trace, result>>

\* the Query arm up to its loop: the query line
PrintQuery ==
    /\ result = "running" /\ InPrint
    /\ Top.at = "enter" /\ Top.trace.kind = "Query"
    /\ LET f == Top
       IN  \E w \in usize_sub(QueryNameWidth, f.indent) :
             IF w.panic
             THEN Panic
             ELSE /\ out' = Append(out, QueryLine(f.name, f.trace.elapsed,
                                                  f.trace.entity_count, f.indent, w.v))
                  /\ stack' = SetTop([f EXCEPT !.at = "loop"])
                  /\ UNCHANGED <<pc, calls, log_entry, output, trace, result>>

\* one turn of "for (name, trace) in children": the recursive call
RenderChild ==
    /\ result = "running" /\ InPrint
    /\ Top.at = "loop" /\ Top.i <= Len(Top.trace.children)
    /\ LET f == Top
           c == f.trace.children[f.i]
       IN  stack' = Append(SetTop([f EXCEPT !.i = f.i + 1]),
                           PrintFrame(c[1], c[2], child_indent(f.indent)))
    /\ UNCHANGED <<pc, calls, log_entry, output, trace, out, result>>

\* the end of the loop: the Root arm prints the summary; Ok(()) to the caller,
\* and from the outermost call main returns Ok(())
RenderReturn ==
    /\ result = "running" /\ InPrint
    /\ Top.at = "loop" /\ Top.i > Len(Top.trace.children)
    /\ out' = IF Top.trace.kind = "Root"
              THEN out \o SummaryLines(Top.qt, Top.pt, Top.trace.elapsed)
              ELSE out
    /\ stack' = Rest
    /\ IF Len(stack) = 1
       THEN /\ pc' = "done"
            /\ result' = "ok"
            /\ calls' = Returned("print_brief_trace", TRUE)
       ELSE UNCHANGED <<pc, result, calls>>
    /\ UNCHANGED <<log_entry, output, trace>>

Next ==
    \/ ConfigLoad
    \/ WritelnLoki
    \/ LokiQuery
    \/ SaveQuery
    \/ WritelnGraph
    \/ GraphQuery
    \/ SaveOutput
    \/ SaveTrace
    \/ ParseCall
    \/ ParseChild
    \/ ParseReturn
    \/ Header
    \/ RenderCall
    \/ QtCall
    \/ QtChild
    \/ QtReturn
    \/ PrintRoot
    \/ PrintQuery
    \/ RenderChild
    \/ RenderReturn

Spec == Init /\ [][Next]_vars

(***************************************************************************)
(* What the claims are stated over: the document that was parsed, the tree *)
(* it gave, and both walked by paths.                                      *)
(***************************************************************************)
Input == Index(output, "trace")
ParseOk == trace # NoValue
ParseFailed ==
    calls # <<>> /\ calls[Len(calls)] = [step |-> "Trace::parse", ev |-> "err"]

\* the step of main has returned Ok
Done(step) == \E i \in 1..Len(calls) : calls[i] = [step |-> step, ev |-> "ok"]

\* the paths of a Trace: the positions of the children taken from the root
RECURSIVE TracePaths(_)
TracePaths(t) ==
    {<<>>} \cup UNION {{<<i>> \o p : p \in TracePaths(t.children[i][2])} :
                       i \in 1..Len(t.children)}

RECURSIVE TraceAt(_, _)
TraceAt(t, p) == IF p = <<>> THEN t ELSE TraceAt(t.children[Head(p)][2], Tail(p))

Parent(p) == SubSeq(p, 1, Len(p) - 1)
NameAt(t, p) == IF p = <<>> THEN "root" ELSE TraceAt(t, Parent(p)).children[p[Len(p)]][1]
\* the names on the way to p: the keys of the document that lead to the node
KeyPath(t, p) == [k \in 1..Len(p) |-> NameAt(t, SubSeq(p, 1, k))]

ChildNames(t) == [i \in 1..Len(t.children) |-> t.children[i][1]]
ObjectKeys(v) ==
    LET es == SelectSeq(v.e, LAMBDA en : en.v.t = "obj")
    IN  [i \in 1..Len(es) |-> es[i].k]

\* pre-order on paths: a node before its descendants, siblings by position
Before(q, p) ==
    LET m == IF Len(q) < Len(p) THEN Len(q) ELSE Len(p)
        d == {j \in 1..m : q[j] # p[j]}
    IN  IF d = {} THEN Len(q) < Len(p)
        ELSE LET k == CHOOSE j \in d : \A i \in d : j <= i IN q[k] < p[k]
Rank(P, p) == Cardinality({q \in P : Before(q, p)}) + 1

RECURSIVE SumCounts(_)
SumCounts(S) ==
    IF S = {} THEN 0
    ELSE LET x == CHOOSE y \in S : TRUE IN x.v * x.n + SumCounts(S \ {x})

\* the elapsed milliseconds of the nodes of t at the paths P, added up
TraceMs(t, P) ==
    LET V == {as_millis(TraceAt(t, p).elapsed) : p \in P}
    IN  SumCounts({[v |-> v, n |-> Cardinality({p \in P : as_millis(TraceAt(t, p).elapsed) = v})] :
                   v \in V})

\* the elapsed_ms of the nodes of the document v at the paths P, added up
DocMs(v, P) ==
    LET V == {Index(ValueAt(v, p), "elapsed_ms").n : p \in P}
    IN  SumCounts({[v |-> x, n |-> Cardinality({p \in P : Index(ValueAt(v, p), "elapsed_ms").n = x})] :
                   x \in V})

NodeLineKinds == {"root", "query"}
SummaryKinds == {"blank", "query:", "other:", "total:"}
NodeLines == SelectSeq(out, LAMBDA l : l.kind \in NodeLineKinds)
PrintFrames == {k \in 1..Len(stack) : stack[k].fn = "print_brief_trace"}

(***************************************************************************)
(* Claims.                                                                 *)
(***************************************************************************)

\* C1: when the children's aggregate queryTime exceeds the root's elapsed,
\* computing other = elapsed - queryTime does not crash the run.
C1_NoFaultOnUnderflow ==
    \A k \in PrintFrames :
        (stack[k].trace.kind = "Root" /\ stack[k].at = "sub"
         /\ DurLess(stack[k].trace.elapsed, stack[k].qt))
        => result # "panic"

\* C2: query_time is the reference recursion: in the call that is running the
\* sum() holds the elapsed of every node under the children summed so far (a
\* Query child with its own elapsed), and what query_time returns to the Root
\* arm is the elapsed of all nested nodes, the root's own elapsed left out.
C2_QueryTimeIsReference ==
    /\ (stack # <<>> /\ Top.fn = "query_time") =>
          LET t == Top.trace
              done == {p \in TracePaths(t) : p # <<>> /\ p[1] < Top.i}
          IN  Top.acc = from_millis(TraceMs(t, done))
    /\ (stack # <<>> /\ Top.fn = "print_brief_trace" /\ Top.at = "sub") =>
          Top.qt = from_millis(TraceMs(Top.trace, TracePaths(Top.trace) \ {<<>>}))

C2_Witness ==
    /\ stack # <<>> /\ stack[1].fn = "print_brief_trace" /\ stack[1].at = "sub"
    /\ Len(trace.children) = 2
    /\ trace.children[1][2].children # <<>>
    /\ as_millis(stack[1].qt) >= 3 * MsUnit
    /\ as_millis(trace.elapsed) > 0

RequiredKeys(p) ==
    IF p = <<>>
    THEN {"elapsed_ms", "conn_wait_ms", "permit_wait_ms", "query", "variables",
          "query_id", "block"}
    ELSE {"elapsed_ms", "conn_wait_ms", "permit_wait_ms", "entity_count"}

\* C3: a parse that returns a tree had every required key on every node.
C3_MissingKeyFails ==
    pc = "println" =>
        \A p \in NodePaths(Input) : \A key \in RequiredKeys(p) : HasKey(ValueAt(Input, p), key)

\* what a node needs to pass the ? of parse (the root) or parse_query
NodeValid(v, isRoot) ==
    /\ \A key \in {"elapsed_ms", "conn_wait_ms", "permit_wait_ms"} :
          Index(v, key).t = "num" /\ Index(v, key).n >= 0
    /\ LET c == Index(v, IF isRoot THEN "block" ELSE "entity_count")
       IN  c.t = "num" /\ c.n >= 0

AllNodesValid ==
    /\ Input.t = "obj"
    /\ \A p \in NodePaths(Input) : NodeValid(ValueAt(Input, p), p = <<>>)

\* C4: parsing is all-or-nothing: when Trace::parse has returned a tree every
\* object of the document, however deep, passes validation and the tree holds
\* a node for each of them; a failed parse leaves no tree, and there is no
\* tree before parse returned.
C4_AllOrNothing ==
    /\ pc = "println" =>
          /\ ParseOk
          /\ AllNodesValid
          /\ {KeyPath(trace, p) : p \in TracePaths(trace)} = NodePaths(Input)
    /\ ParseFailed => trace = NoValue /\ result = "err" /\ stack = <<>>
    /\ pc = "Trace::parse" => trace = NoValue
    /\ ParseOk => pc \in {"println", "print_brief_trace", "done"}

C4_Witness ==
    /\ ParseFailed
    /\ Input.t = "obj"
    /\ \E p \in NodePaths(Input) :
          /\ Len(p) = 2
          /\ ~NodeValid(ValueAt(Input, p), FALSE)
          /\ \A q \in NodePaths(Input) \ {p} : NodeValid(ValueAt(Input, q), q = <<>>)

\* C5: in the tree Trace::parse returned, the children of a node are exactly
\* the entries of its
\* JSON object whose value is an object, named by their keys and in the order
\* of the entries; no other entry is a child.
C5_ChildrenAreObjectEntries ==
    pc = "println" =>
        /\ {KeyPath(trace, p) : p \in TracePaths(trace)} = NodePaths(Input)
        /\ \A p \in TracePaths(trace) :
              ChildNames(TraceAt(trace, p)) = ObjectKeys(ValueAt(Input, KeyPath(trace, p)))

C5_Witness ==
    /\ pc = "println"
    /\ \E i \in 1..Len(trace.children) : trace.children[i][1] = "query"
    /\ \E i \in 1..Len(trace.children) : trace.children[i][1] = "a"
    /\ Len(trace.children) < Len(Input.e)

\* C6: every node line starts with exactly indent spaces.
C6_LeadIsIndent ==
    \A i \in 1..Len(out) :
        out[i].kind \in NodeLineKinds => out[i].lead = out[i].indent

\* C7: the summary lines report query = the elapsed_ms of the nested nodes
\* added up, other = the root's elapsed_ms minus that, total = the root's
\* elapsed_ms, so query + other = total.
C7_Summary ==
    \A i \in 1..Len(out) :
        out[i].kind = "total:" =>
            LET T == Index(Input, "elapsed_ms").n
                Q == DocMs(Input, NodePaths(Input) \ {<<>>})
            IN  /\ i > 3
                /\ Q <= T
                /\ out[i - 2] = [kind |-> "query:", ms |-> Q]
                /\ out[i - 1] = [kind |-> "other:", ms |-> T - Q]
                /\ out[i] = [kind |-> "total:", ms |-> T]
                /\ out[i - 2].ms + out[i - 1].ms = out[i].ms

C7_Witness ==
    /\ result = "ok"
    /\ \E i \in 1..Len(out) : out[i].kind = "query:" /\ out[i].ms > 0
    /\ \E i \in 1..Len(out) : out[i].kind = "other:" /\ out[i].ms > 0
    /\ Len(trace.children) = 2

\* What print_brief_trace has printed at any moment is the start of the
\* pre-order listing: the node lines come in pre-order (a node before its
\* children, siblings in children order), a child at its parent's indent plus
\* 2 from the root at 0; the summary comes once, after the line of the last
\* node; a call that returns Ok has printed all of it.
PrintedInPreOrder ==
    ((stack # <<>> /\ stack[1].fn = "print_brief_trace") \/ pc = "done") =>
        LET P == TracePaths(trace)
            lines == NodeLines
            n == Len(lines)
        IN  /\ n <= Cardinality(P)
            /\ \A p \in P :
                  Rank(P, p) <= n =>
                    LET l == lines[Rank(P, p)]
                    IN  /\ l.name = NameAt(trace, p)
                        /\ l.indent = IndentStep * Len(p)
                        /\ l.ms = as_millis(TraceAt(trace, p).elapsed)
                        /\ l.kind = IF p = <<>> THEN "root" ELSE "query"
            /\ \A i \in 1..Len(out) :
                  /\ out[i].kind \in NodeLineKinds => i <= 1 + n
                  /\ out[i].kind \in SummaryKinds =>
                        /\ n = Cardinality(P)
                        /\ Len(out) = 1 + n + 4
                        /\ i > 1 + n
                        /\ out[i].kind = SummaryLines(DurZero, DurZero, DurZero)[i - 1 - n].kind
            /\ pc = "done" => Len(out) = 1 + Cardinality(P) + 4

RenderEnded == Done("Trace::parse") /\ pc = "print_brief_trace"
                  /\ calls[Len(calls)].step = "print_brief_trace" /\ result # "running"

\* C8: rendering a parsed tree emits exactly one line per node, in pre-order,
\* each child at its parent's indent plus 2, and the summary lines exactly
\* once, after the line of the last descendant.
C8_OneLinePerNode ==
    /\ PrintedInPreOrder
    /\ (RenderEnded \/ pc = "done") =>
          /\ Len(NodeLines) = Cardinality(TracePaths(trace))
          /\ Len(out) = 1 + Cardinality(TracePaths(trace)) + Cardinality(SummaryKinds)

Pipeline ==
    << "Config::load", "writeln Loki", "loki.query", "save_query", "writeln graph-node",
       "graph_node.query", "save_output", "save_trace", "Trace::parse",
       "print_brief_trace" >>

\* the log of a run whose first k steps returned Ok
OkLog(k) ==
    [i \in 1..(2 * k) |->
        [step |-> Pipeline[(i + 1) \div 2], ev |-> IF i % 2 = 1 THEN "call" ELSE "ok"]]


\* C9: the steps of main are made at most once each and in order, each after
\* the one before returned Ok: the log query, then the trace request, both
\* before Trace::parse, which returns before anything is rendered; after a
\* step failed nothing more is made.
C9_Sequential ==
    /\ \E k \in 0..Len(Pipeline) :
          \/ calls = OkLog(k)
          \/ /\ k < Len(Pipeline)
             /\ \/ calls = Append(OkLog(k), [step |-> Pipeline[k + 1], ev |-> "call"])
                \/ calls = OkLog(k) \o <<[step |-> Pipeline[k + 1], ev |-> "call"],
                                         [step |-> Pipeline[k + 1], ev |-> "err"]>>
    /\ result = "err" <=> (calls # <<>> /\ calls[Len(calls)].ev = "err")
    /\ log_entry # NoValue <=> Done("loki.query")
    /\ output # NoValue <=> Done("graph_node.query")
    /\ trace # NoValue <=> Done("Trace::parse")
    /\ (stack # <<>> /\ Top.fn \in {"parse", "parse_query"}) => Done("save_trace")
    /\ out # <<>> => Done("Trace::parse")
    /\ (stack # <<>> /\ Top.fn \in {"print_brief_trace", "query_time"}) => Done("Trace::parse")

C9_Witness ==
    /\ pc = "done" /\ result = "ok"
    /\ calls = OkLog(Len(Pipeline))

\* C10: rendering never faults, whatever the nesting depth: for every Query
\* node that is printed the width 50 - indent does not underflow.
C10_WidthNeverUnderflows ==
    \A k \in PrintFrames :
        stack[k].trace.kind = "Query" => stack[k].indent <= QueryNameWidth

====
